---- MODULE Spec2Model ----
(***************************************************************************)
(* A model of MRIReconAugmentor (meddlr/transforms/builtin/mri.py): the    *)
(* transform classifier, the layout adapter (_permute_data), the           *)
(* constructor and the call pipeline                                       *)
(*   classify -> combine -> equivariant -> decompose -> undersample ->     *)
(*   normalize -> invariant (+ re-mask) -> scheduler step.                 *)
(*                                                                         *)
(* Tensors are records [kind, batch, axes, data]: `axes` is the order of   *)
(* the named axes (what permute changes), `data` the values at the two     *)
(* sample positions of the model, taken in the field of integers modulo 3  *)
(* (a length-2 discrete Fourier transform exists there), and `batch` the   *)
(* length of the first axis.  An absent (None) value is [kind |-> "none"]. *)
(***************************************************************************)
EXTENDS Integers, Sequences, FiniteSets, TLC

VARIABLES
    tfms_or_gens,                      \* self.tfms_or_gens
    aug_sensitivity_maps,              \* self.aug_sensitivity_maps
    apply_mask_after_invariant_tfms,   \* self.apply_mask_after_invariant_tfms
    rng,                               \* RNG state of every generator
    sched,                             \* progress counter of every scheduler
    fed,                               \* history: sum of the batch sizes of the completed calls
    call,                              \* arguments of the last __call__
    ret,                               \* what the last __call__ produced
    lay,                               \* layout adapter: arguments, direction flags, result
    ctor,                              \* constructor runs of two orchestrators
    twin                               \* a second orchestrator built from the same configuration

vars == <<tfms_or_gens, aug_sensitivity_maps, apply_mask_after_invariant_tfms,
          rng, sched, fed, call, ret, lay, ctor, twin>>

-----------------------------------------------------------------------------
(* Bounds *)

MaxTfms == 2        \* longest transform list of an orchestrator
MaxProgress == 2    \* calls stop once this many samples were fed
RngMod == 2         \* number of RNG states of a generator
MaxRank == 5        \* highest tensor rank handed to the layout adapter
MaxArgs == 2        \* most tensors handed to the layout adapter in one call

-----------------------------------------------------------------------------
(* Values *)

None == [kind |-> "none"]
IsNone(x) == x.kind = "none"

Range(s) == {s[i] : i \in 1..Len(s)}

RECURSIVE SeqsUpTo(_, _)
SeqsUpTo(S, n) ==
    IF n = 0 THEN {<<>>}
    ELSE LET shorter == SeqsUpTo(S, n - 1)
         IN  shorter \cup {Append(s, x) : s \in {t \in shorter : Len(t) = n - 1}, x \in S}

RECURSIVE Flatten(_)
Flatten(ss) == IF ss = <<>> THEN <<>> ELSE Head(ss) \o Flatten(Tail(ss))

(* arithmetic of the sample values: the integers modulo 3 *)
Add(a, b) == (a + b) % 3
Sub(a, b) == (a + 3 - b) % 3
Mul(a, b) == (a * b) % 3
PAdd(x, y) == <<Add(x[1], y[1]), Add(x[2], y[2])>>
PMul(x, y) == <<Mul(x[1], y[1]), Mul(x[2], y[2])>>
Support(x) == {i \in 1..2 : x[i] # 0}

Tensor(axes, batch, data) == [kind |-> "tensor", batch |-> batch, axes |-> axes, data |-> data]
WithData(x, d) == [x EXCEPT !.data = d]

KspaceAxes == <<"batch", "height", "width", "coils">>
MapsAxes == <<"batch", "height", "width", "coils", "maps">>
ImageAxes == <<"batch", "height", "width", "maps">>

-----------------------------------------------------------------------------
(* Layout adapter: MRIReconAugmentor._permute_data                         *)

(* PermuteDims whose channel-last branch moves the trailing axes first *)
PermuteDims_TrailingFirst(ndim, spatial_last) ==
    IF spatial_last
    THEN <<1>> \o [i \in 1..(ndim - 3) |-> i + 3] \o <<2, 3>>
    ELSE <<1>> \o [i \in 1..(ndim - 3) |-> i + 3] \o <<2, 3>>

(* the dims tuple built for a tensor of rank ndim (1-based here) *)
PermuteDims(ndim, spatial_last) ==
    IF spatial_last
    THEN <<1>> \o [i \in 1..(ndim - 3) |-> i + 3] \o <<2, 3>>
    ELSE <<1, ndim - 1, ndim>> \o [i \in 1..(ndim - 3) |-> i + 1]

IsPermutation(dims, ndim) == Len(dims) = ndim /\ Range(dims) = 1..ndim

(* x.permute(dims): the axes reordered; the values are not touched *)
TorchPermute(x, dims) == [x EXCEPT !.axes = [i \in 1..Len(dims) |-> x.axes[dims[i]]]]

(* the body of either loop for one argument x: [err, val] *)
PermuteOne(x, spatial_last) ==
    IF IsNone(x) THEN [err |-> "AttributeError", val |-> x]
    ELSE LET dims == PermuteDims(Len(x.axes), spatial_last)
         IN  IF IsPermutation(dims, Len(x.axes))
             THEN [err |-> "none", val |-> TorchPermute(x, dims)]
             ELSE [err |-> "RuntimeError", val |-> x]

(* _permute_data over its positional arguments: [err, arity, vals]; the     *)
(* first failing argument raises                                            *)
PermuteData(args, spatial_last) ==
    LET one == [i \in 1..Len(args) |-> PermuteOne(args[i], spatial_last)]
        bad == {i \in 1..Len(args) : one[i].err # "none"}
        first == CHOOSE i \in bad : \A j \in bad : i <= j
    IN  IF bad # {}
        THEN [err |-> one[first].err, arity |-> "raised", vals |-> <<>>]
        ELSE [err |-> "none",
              arity |-> IF Len(args) = 1 THEN "single" ELSE "tuple",
              vals |-> [i \in 1..Len(args) |-> one[i].val]]

-----------------------------------------------------------------------------
(* Transforms, generators, schedulers                                      *)

(* An entry of a transform list: cls is the class of the object, base the  *)
(* _base_transform of a generator, id names the object, draw the random    *)
(* draw a realized transform came from.                                    *)
Entry(cls, base, id, draw) == [cls |-> cls, base |-> base, id |-> id, draw |-> draw]

TGeo == Entry("Geo", "", "flip", 0)          \* a bare geometric Transform
TPhys == Entry("Phys", "", "noise", 0)       \* a bare physics Transform, apply_kspace(kspace)
TNoOp == Entry("NoOp", "", "noop", 0)        \* a bare NoOpTransform
TBad == Entry("Bad", "", "object", 0)        \* an object that is no Transform
G1 == Entry("TransformGen", "Geo", "g1", 0)       \* a generator of geometric transforms
G2 == Entry("TransformGen", "PhysMaps", "g2", 0)  \* a generator of physics transforms, apply_kspace(kspace, maps)
C1 == Entry("RandomTransformChoice", "", "c1", 0) \* a choice composite

(* the entries an orchestrator's list is made of; G2, TPhys and TNoOp are   *)
(* also what the choice composite resolves to                              *)
Entries == {TGeo, TPhys, TBad, G1, C1}
GenIds == {"g1", "g2", "c1"}
SchedIds == {"s1", "s2", "s3"}

IsTransformGen(x) == x.cls \in {"TransformGen", "RandomTransformChoice"}
IsRandomTransformChoice(x) == x.cls = "RandomTransformChoice"
(* IsNoOpTransform that recognizes no instance *)
IsNoOpTransform_Never(x) == FALSE
IsNoOpTransform(x) == x.cls = "NoOp"
IsSchedulable(x) == IsTransformGen(x)
(* SubclassOfTransform that lets every type pass *)
SubclassOfTransform_Any(k) == TRUE
SubclassOfTransform(k) == k \in {"Geo", "Phys", "PhysMaps", "NoOp"}
SubclassOfGeometricMixin(k) == k = "Geo"

(* what the choice composite c1 chooses among: a fixed sub-list or a generator *)
ChoiceOptions == << [isList |-> TRUE, items |-> <<TNoOp, TPhys>>],
                    [isList |-> FALSE, items |-> <<G2>>] >>

(* RandomTransformChoice.get_transform() in RNG state r *)
ChoiceGetTransform(r) == ChoiceOptions[(r % 2) + 1]

(* TransformGen.get_transform(data) in RNG state r: a no-op or a transform of the base type *)
GenGetTransform(g, r) == IF r = 0 THEN TNoOp ELSE Entry(g.base, "", g.id, r)

(* the RNG state after one draw *)
RngNext(r) == (r + 1) % RngMod

(* seed_tfm_gens / TransformGen.seed: the RNG state a seed value gives *)
SeedState(value) == value % RngMod

(* SchedulableMixin.schedulers() of one entry *)
SchedulersOf(x) ==
    IF x.id = "g1" THEN <<"s1">>
    ELSE IF x.id = "g2" THEN <<"s2">>
    ELSE IF x.id = "c1" THEN <<"s3">>
    ELSE <<>>

(* Transform.apply_image / apply_maps of a geometric transform: a flip *)
ApplyImage(t, x) == WithData(x, <<x.data[2], x.data[1]>>)
ApplyMaps(t, m) == WithData(m, <<m.data[2], m.data[1]>>)

(* inspect.signature(tfm.apply_kspace).parameters.get("maps") is not None *)
AcceptsMaps(t) == t.cls = "PhysMaps"

(* Transform.apply_kspace: additive corruption of every sample *)
ApplyKspace(t, k) == WithData(k, PAdd(k.data, <<1, 1>>))
ApplyKspaceMaps(t, k, maps) == WithData(k, PAdd(k.data, maps.data))

-----------------------------------------------------------------------------
(* Measurement operator, mask, normalizer                                  *)

FFT(x) == <<Add(x[1], x[2]), Sub(x[1], x[2])>>
IFFT(y) == <<Mul(2, Add(y[1], y[2])), Mul(2, Sub(y[1], y[2]))>>

(* cplx.get_mask(kspace): 1 where the measurement is non-zero *)
GetMask(k) == WithData(k, [i \in 1..2 |-> IF k.data[i] # 0 THEN 1 ELSE 0])

(* weights * kspace inside SenseModel; weights=None weighs nothing *)
Weighted(weights, k) == IF IsNone(weights) THEN k.data ELSE PMul(weights.data, k.data)

(* SenseModel(maps, weights=weights)(kspace, adjoint=True) *)
SenseAdjoint(maps, weights, k) ==
    Tensor(ImageAxes, k.batch, PMul(maps.data, IFFT(Weighted(weights, k))))

(* SenseModel(maps)(img) *)
SenseForward(maps, img) ==
    Tensor(KspaceAxes, img.batch, FFT(PMul(maps.data, img.data)))

(* MaskTimes that leaves the measurement as it is *)
MaskTimes_Skip(mask, k) == k

(* line 194: mask * kspace with a tensor mask, or with the Python value True *)
MaskTimes(mask, k) == IF mask.kind = "true" THEN k ELSE WithData(k, PMul(mask.data, k.data))

(* mask_gen(kspace): keeps the first sample position *)
MaskGen(k) == [kspace |-> WithData(k, PMul(<<1, 0>>, k.data)),
               mask |-> WithData(k, <<1, 0>>)]

(* Normalizer.normalize: divides by the first non-zero image value *)
NormScale(img) == IF img.data[1] # 0 THEN img.data[1]
                  ELSE IF img.data[2] # 0 THEN img.data[2] ELSE 1
Normalize(k, img, target, mask) ==
    LET inv == NormScale(img)    \* in the integers modulo 3 every unit is its own inverse
    IN  [masked_kspace |-> WithData(k, PMul(<<inv, inv>>, k.data)),
         target |-> IF IsNone(target) THEN target
                    ELSE WithData(target, PMul(<<inv, inv>>, target.data)),
         mean |-> [kind |-> "scalar", value |-> 0],
         std |-> [kind |-> "scalar", value |-> NormScale(img)]]

-----------------------------------------------------------------------------
(* Transform classifier: MRIReconAugmentor._classify_transforms            *)

(* tfm_kind of one entry *)
TfmKind(tfm) == IF IsTransformGen(tfm) THEN tfm.base ELSE tfm.cls

(* ClassifyFrom with an invariant entry put in front of the list, not appended *)
RECURSIVE ClassifyFrom_Prepend(_, _, _, _)
ClassifyFrom_Prepend(gens, i, te, ti) ==
    IF i > Len(gens) THEN [err |-> "none", te |-> te, ti |-> ti]
    ELSE LET tfm == gens[i]
             tfm_kind == TfmKind(tfm)
         IN  IF ~SubclassOfTransform(tfm_kind)
             THEN [err |-> "AssertionError", te |-> <<>>, ti |-> <<>>]
             ELSE IF SubclassOfGeometricMixin(tfm_kind)
                  THEN ClassifyFrom_Prepend(gens, i + 1, Append(te, tfm), ti)
                  ELSE ClassifyFrom_Prepend(gens, i + 1, te, <<tfm>> \o ti)

RECURSIVE ClassifyFrom(_, _, _, _)
ClassifyFrom(gens, i, te, ti) ==
    IF i > Len(gens) THEN [err |-> "none", te |-> te, ti |-> ti]
    ELSE LET tfm == gens[i]
             tfm_kind == TfmKind(tfm)
         IN  IF ~SubclassOfTransform(tfm_kind)
             THEN [err |-> "AssertionError", te |-> <<>>, ti |-> <<>>]
             ELSE IF SubclassOfGeometricMixin(tfm_kind)
                  THEN ClassifyFrom(gens, i + 1, Append(te, tfm), ti)
                  ELSE ClassifyFrom(gens, i + 1, te, Append(ti, tfm))

ClassifyTransforms(transform_gens) == ClassifyFrom(transform_gens, 1, <<>>, <<>>)

-----------------------------------------------------------------------------
(* MRIReconAugmentor.__call__                                              *)
(*                                                                         *)
(* A frame holds the local variables of one call, the generator and        *)
(* scheduler state as the call changes it, and a log of the operations the *)
(* call performed on its collaborators.  Once err is set the exception     *)
(* propagates: the remaining statements do not run.                        *)

Op(op, id) == [op |-> op, id |-> id]

Bool(b) == [kind |-> "bool", value |-> b]
TrueMask == [kind |-> "true"]
TheNormalizer == [kind |-> "normalizer"]
TheMaskGen == [kind |-> "mask_gen"]

InitFrame(in, list, aug, ctor_remask, r, sc) ==
    [err |-> "none", kspace |-> in.kspace, maps |-> in.maps, target |-> in.target,
     img |-> None, mask |-> in.mask, mean |-> None, std |-> None, kspace_te |-> None,
     kspace_ti |-> None, at_norm |-> None, norm_in |-> None, maps_ti |-> None,
     normalizer |-> in.normalizer, mask_gen |-> in.mask_gen, skip_tfm |-> in.skip_tfm,
     remask_arg |-> in.apply_mask_after_invariant_tfms, remask_self |-> ctor_remask,
     remask |-> FALSE, list |-> list, aug |-> aug,
     resolved |-> <<>>, te_cls |-> <<>>, ti_cls |-> <<>>, te |-> <<>>, ti |-> <<>>,
     returned |-> FALSE, rng |-> r, sched |-> sc, log |-> <<>>]

(* lines 129-132: the list comprehension that resolves the choice composites *)
RECURSIVE ResolveFrom(_, _, _, _, _)
ResolveFrom(list, i, acc, r, log) ==
    IF i > Len(list) THEN [gens |-> acc, rng |-> r, log |-> log]
    ELSE LET x == list[i]
         IN  IF IsRandomTransformChoice(x)
             THEN ResolveFrom(list, i + 1, Append(acc, ChoiceGetTransform(r[x.id])),
                              [r EXCEPT ![x.id] = RngNext(r[x.id])],
                              Append(log, Op("get_transform", x.id)))
             ELSE ResolveFrom(list, i + 1, Append(acc, [isList |-> FALSE, items |-> <<x>>]),
                              r, log)

(* FlattenGens that moves the elements of the list-valued resolutions to   *)
(* the end                                                                 *)
FlattenGens_SplicedLast(gens) ==
    Flatten([i \in 1..Len(gens) |-> IF gens[i].isList THEN <<>> ELSE gens[i].items])
    \o Flatten([i \in 1..Len(gens) |-> IF gens[i].isList THEN gens[i].items ELSE <<>>])

(* lines 133-140: list-valued resolutions are spliced in *)
FlattenGens(gens) ==
    IF \E i \in 1..Len(gens) : gens[i].isList
    THEN Flatten([i \in 1..Len(gens) |-> gens[i].items])
    ELSE [i \in 1..Len(gens) |-> gens[i].items[1]]

(* line 121-122: the re-mask flag in effect for the call *)
RemaskFlag_SelfOnly(arg, self) == self
RemaskFlag(arg, self) == IF IsNone(arg) THEN self ELSE arg.value

(* line 123: whether the transforms are skipped *)
SkipTfm_Never(skip_tfm) == FALSE
SkipTfm(skip_tfm) == skip_tfm

(* lines 121-142 *)
StageClassify(f) ==
    LET remask == RemaskFlag(f.remask_arg, f.remask_self)
        g == [f EXCEPT !.remask = remask]
    IN  IF SkipTfm(f.skip_tfm) THEN g
        ELSE LET res == ResolveFrom(f.list, 1, <<>>, f.rng, f.log)
                 transform_gens == FlattenGens(res.gens)
                 cl == ClassifyTransforms(transform_gens)
             IN  [g EXCEPT !.rng = res.rng, !.resolved = transform_gens,
                           !.log = Append(res.log, Op("classify", "")),
                           !.err = cl.err,
                           !.te_cls = cl.te, !.ti_cls = cl.ti,
                           !.te = cl.te, !.ti = cl.ti]

(* line 144 *)
UseImg(f) == ~IsNone(f.normalizer) \/ Len(f.te) > 0

(* lines 144-152 *)
StageCombine(f) ==
    IF ~UseImg(f) THEN f
    ELSE LET derive == f.mask.kind = "true"
             mask == IF derive THEN GetMask(f.kspace) ELSE f.mask
         IN  [f EXCEPT !.mask = mask,
                       !.img = SenseAdjoint(f.maps, mask, f.kspace),
                       !.log = f.log \o (IF derive THEN <<Op("get_mask", "")>> ELSE <<>>)
                                     \o <<Op("adjoint", "")>>]

(* AugMaps that does not look at aug_sensitivity_maps *)
AugMaps_Always(maps, aug) == ~IsNone(maps)

(* line 287: whether an equivariant transform is applied to the maps *)
AugMaps(maps, aug) == ~IsNone(maps) /\ aug

(* lines 279-290: the loop of _apply_te; acc holds image, target, maps, tfms *)
RECURSIVE ApplyTeFrom(_, _, _, _)
ApplyTeFrom(list, i, acc, aug) ==
    IF i > Len(list) THEN acc
    ELSE LET g == list[i]
             isgen == IsTransformGen(g)
             tfm == IF isgen THEN GenGetTransform(g, acc.rng[g.id]) ELSE g
             r == IF isgen THEN [acc.rng EXCEPT ![g.id] = RngNext(acc.rng[g.id])] ELSE acc.rng
             l == IF isgen THEN Append(acc.log, Op("get_transform", g.id)) ELSE acc.log
         IN  IF IsNoOpTransform(tfm)
             THEN ApplyTeFrom(list, i + 1, [acc EXCEPT !.rng = r, !.log = l], aug)
             ELSE ApplyTeFrom(list, i + 1,
                      [image |-> ApplyImage(tfm, acc.image),
                       target |-> IF ~IsNone(acc.target) THEN ApplyImage(tfm, acc.target)
                                  ELSE acc.target,
                       maps |-> IF AugMaps(acc.maps, aug) THEN ApplyMaps(tfm, acc.maps)
                                ELSE acc.maps,
                       tfms |-> Append(acc.tfms, tfm),
                       rng |-> r,
                       log |-> Append(l, Op("apply_image", tfm.id))], aug)

(* _apply_te, lines 259-290 *)
ApplyTe(tfms_equivariant, image, target, maps, aug, r, log) ==
    ApplyTeFrom(tfms_equivariant, 1,
                [image |-> image, target |-> target, maps |-> maps, tfms |-> <<>>,
                 rng |-> r, log |-> log], aug)

(* lines 155-160 *)
StageEquivariant(f) ==
    IF ~(Len(f.te) > 0) THEN f
    ELSE LET p == PermuteData(<<f.img, f.target, f.maps>>, TRUE)
         IN  IF p.err # "none" THEN [f EXCEPT !.err = p.err]
             ELSE LET a == ApplyTe(f.te, p.vals[1], p.vals[2], p.vals[3], f.aug, f.rng, f.log)
                      q == PermuteData(<<a.image, a.target, a.maps>>, FALSE)
                  IN  IF q.err # "none" THEN [f EXCEPT !.err = q.err, !.rng = a.rng, !.log = a.log]
                      ELSE [f EXCEPT !.img = q.vals[1], !.target = q.vals[2], !.maps = q.vals[3],
                                     !.te = a.tfms, !.rng = a.rng, !.log = a.log]

(* Redecompose that looks at the classified list, not at the realized one *)
Redecompose_Classified(te_cls, te) == Len(te_cls) > 0

(* line 163: len(tfms_equivariant) > 0 on the TransformList _apply_te returned *)
Redecompose(te_cls, te) == Len(te) > 0

(* lines 163-165 *)
StageDecompose(f) ==
    IF ~Redecompose(f.te_cls, f.te) THEN [f EXCEPT !.kspace_te = f.kspace]
    ELSE [f EXCEPT !.kspace = SenseForward(f.maps, f.img),
                   !.kspace_te = SenseForward(f.maps, f.img),
                   !.log = Append(f.log, Op("forward", ""))]

(* lines 167-169 *)
StageUndersample(f) ==
    IF IsNone(f.mask_gen) THEN f
    ELSE LET u == MaskGen(f.kspace)
         IN  [f EXCEPT !.kspace = u.kspace, !.mask = u.mask,
                       !.img = SenseAdjoint(f.maps, u.mask, u.kspace),
                       !.log = f.log \o <<Op("mask_gen", ""), Op("refresh", "")>>]

(* Normalizes that never takes the normalizer's branch *)
Normalizes_Never(normalizer) == FALSE

(* line 171: `if normalizer:` *)
Normalizes(normalizer) == ~IsNone(normalizer)

(* lines 171-180 *)
StageNormalize(f) ==
    IF ~Normalizes(f.normalizer)
    THEN [f EXCEPT !.mean = None, !.std = None,
                   !.at_norm = [kind |-> "locals", maps |-> f.maps, target |-> f.target]]
    ELSE LET normalized == Normalize(f.kspace, f.img, f.target, f.mask)
         IN  [f EXCEPT !.kspace = normalized.masked_kspace, !.target = normalized.target,
                       !.mean = normalized.mean, !.std = normalized.std,
                       !.at_norm = [kind |-> "locals", maps |-> f.maps,
                                    target |-> normalized.target],
                       !.norm_in = [kind |-> "kwargs", masked_kspace |-> f.kspace,
                                    image |-> f.img, target |-> f.target, mask |-> f.mask],
                       !.log = Append(f.log, Op("normalize", ""))]

(* lines 310-321: the loop of _apply_ti; acc holds kspace, tfms *)
RECURSIVE ApplyTiFrom(_, _, _, _)
ApplyTiFrom(list, i, acc, maps) ==
    IF i > Len(list) THEN acc
    ELSE LET g == list[i]
             isgen == IsTransformGen(g)
             tfm == IF isgen THEN GenGetTransform(g, acc.rng[g.id]) ELSE g
             r == IF isgen THEN [acc.rng EXCEPT ![g.id] = RngNext(acc.rng[g.id])] ELSE acc.rng
             l == IF isgen THEN Append(acc.log, Op("get_transform", g.id)) ELSE acc.log
         IN  IF IsNoOpTransform(tfm)
             THEN ApplyTiFrom(list, i + 1, [acc EXCEPT !.rng = r, !.log = l], maps)
             ELSE ApplyTiFrom(list, i + 1,
                      [kspace |-> IF AcceptsMaps(tfm) THEN ApplyKspaceMaps(tfm, acc.kspace, maps)
                                  ELSE ApplyKspace(tfm, acc.kspace),
                       tfms |-> Append(acc.tfms, tfm),
                       rng |-> r,
                       log |-> Append(l, Op("apply_kspace", tfm.id))], maps)

(* _apply_ti, lines 292-321 *)
ApplyTi(tfms_invariant, kspace, maps, r, log) ==
    ApplyTiFrom(tfms_invariant, 1, [kspace |-> kspace, tfms |-> <<>>, rng |-> r, log |-> log],
                maps)

(* MapsAfterTi that keeps the spatial-last maps handed to _apply_ti *)
MapsAfterTi_Handed(maps, handed) == handed

(* lines 188-192: the maps in spatial-last layout are an argument of       *)
(* _apply_ti only, the name maps is not rebound                            *)
MapsAfterTi(maps, handed) == maps

(* lines 185-194 *)
StageInvariant(f) ==
    IF ~(Len(f.ti) > 0) THEN f
    ELSE IF f.remask /\ IsNone(f.mask) THEN [f EXCEPT !.err = "AssertionError"]
    ELSE LET pk == PermuteData(<<f.kspace>>, TRUE)
             pm == PermuteData(<<f.maps>>, TRUE)
         IN  IF pk.err # "none" THEN [f EXCEPT !.err = pk.err]
             ELSE IF pm.err # "none" THEN [f EXCEPT !.err = pm.err]
             ELSE LET a == ApplyTi(f.ti, pk.vals[1], pm.vals[1], f.rng, f.log)
                      q == PermuteData(<<a.kspace>>, FALSE)
                  IN  IF q.err # "none" THEN [f EXCEPT !.err = q.err, !.rng = a.rng, !.log = a.log]
                      ELSE [f EXCEPT !.kspace = IF f.remask THEN MaskTimes(f.mask, q.vals[1])
                                                ELSE q.vals[1],
                                     !.kspace_ti = q.vals[1],
                                     !.maps = MapsAfterTi(f.maps, pm.vals[1]),
                                     !.maps_ti = pm.vals[1],
                                     !.ti = a.tfms, !.rng = a.rng,
                                     !.log = a.log \o (IF f.remask THEN <<Op("remask", "")>>
                                                       ELSE <<>>)]

(* MRIReconAugmentor.schedulers, lines 203-212 *)
Schedulers(list) ==
    Flatten([i \in 1..Len(list) |->
                IF IsSchedulable(list[i]) THEN SchedulersOf(list[i]) ELSE <<>>])

(* TFScheduler.step(n) on each scheduler of the list ss, in turn *)
RECURSIVE StepAll(_, _, _)
StepAll(ss, sc, n) ==
    IF ss = <<>> THEN sc
    ELSE StepAll(Tail(ss), [sc EXCEPT ![Head(ss)] = sc[Head(ss)] + n], n)

(* lines 196-201 *)
StageStep(f) ==
    [f EXCEPT !.sched = StepAll(Schedulers(f.list), f.sched, f.kspace.batch),
              !.log = Append(f.log, Op("step", "")),
              !.returned = TRUE]

(* CallStages with the normalizer moved behind the invariant transforms *)
CallStages_NormalizeLate == <<"classify", "combine", "equivariant", "decompose", "undersample",
                              "invariant", "normalize", "step">>

(* CallStages with the schedulers stepped ahead of the invariant stage *)
CallStages_StepEarly == <<"classify", "combine", "equivariant", "decompose", "undersample",
                          "normalize", "step", "invariant">>

(* the statements of __call__ in program order, lines 121-201 *)
CallStages == <<"classify", "combine", "equivariant", "decompose", "undersample",
                "normalize", "invariant", "step">>

RunStage(name, f) ==
    IF f.err # "none" THEN f
    ELSE CASE name = "classify" -> StageClassify(f)
           [] name = "combine" -> StageCombine(f)
           [] name = "equivariant" -> StageEquivariant(f)
           [] name = "decompose" -> StageDecompose(f)
           [] name = "undersample" -> StageUndersample(f)
           [] name = "normalize" -> StageNormalize(f)
           [] name = "invariant" -> StageInvariant(f)
           [] name = "step" -> StageStep(f)

RECURSIVE RunStages(_, _)
RunStages(stages, f) ==
    IF stages = <<>> THEN f ELSE RunStages(Tail(stages), RunStage(Head(stages), f))

(* __call__, lines 87-201: the frame at the return statement or at the raise *)
CallResult(in, list, aug, ctor_remask, r, sc) ==
    RunStages(CallStages, InitFrame(in, list, aug, ctor_remask, r, sc))

-----------------------------------------------------------------------------
(* The orchestrator as a state machine                                     *)

(* ids of the generators whose RNG a list can draw from (a choice          *)
(* composite reaches the generators it chooses among)                      *)
GenIdsOf(list) ==
    {list[i].id : i \in {j \in 1..Len(list) : IsTransformGen(list[j])}}
    \cup (IF \E i \in 1..Len(list) : IsRandomTransformChoice(list[i]) THEN {"g2"} ELSE {})

RngStates(list) ==
    {r \in [GenIds -> 0..(RngMod - 1)] : \A g \in GenIds \ GenIdsOf(list) : r[g] = 0}

KspaceInputs == {Tensor(KspaceAxes, 1, <<1, 0>>), Tensor(KspaceAxes, 2, <<1, 2>>)}
MapsFor(k) == Tensor(MapsAxes, k.batch, <<1, 2>>)
TargetsFor(k) == {None, Tensor(ImageAxes, k.batch, <<2, 1>>)}
MasksFor(k) == {None, TrueMask, WithData(k, <<1, 0>>)}

CallInputsFor(k) ==
    {[kspace |-> k, maps |-> MapsFor(k), target |-> t, normalizer |-> n, mask |-> m,
      mask_gen |-> mg, skip_tfm |-> sk, apply_mask_after_invariant_tfms |-> am] :
        t \in TargetsFor(k), n \in {None, TheNormalizer}, m \in MasksFor(k),
        mg \in {None, TheMaskGen}, sk \in BOOLEAN, am \in {None, Bool(TRUE), Bool(FALSE)}}

CallInputs == UNION {CallInputsFor(k) : k \in KspaceInputs}

(* the arguments of a caller's next call: the same collaborators and flags *)
(* as in the call before, on the batch k                                   *)
SameCaller(prev, k) ==
    [prev EXCEPT !.kspace = k,
                 !.maps = MapsFor(k),
                 !.target = IF IsNone(prev.target) THEN prev.target
                            ELSE [prev.target EXCEPT !.batch = k.batch],
                 !.mask = IF prev.mask.kind = "tensor"
                          THEN [prev.mask EXCEPT !.batch = k.batch] ELSE prev.mask]

NoCall == [kspace |-> Tensor(KspaceAxes, 1, <<0, 0>>), maps |-> MapsFor(Tensor(KspaceAxes, 1, <<0, 0>>)),
           target |-> None, normalizer |-> None, mask |-> None, mask_gen |-> None,
           skip_tfm |-> TRUE, apply_mask_after_invariant_tfms |-> None]

ZeroRng == [g \in GenIds |-> 0]
ZeroSched == [s \in SchedIds |-> 0]
(* what a call leaves for its caller to see: the returned values, or the   *)
(* exception, with the locals the return values were computed from         *)
Outcome(f) ==
    [err |-> f.err, returned |-> f.returned,
     kspace |-> f.kspace, maps |-> f.maps, target |-> f.target, mean |-> f.mean, std |-> f.std,
     img |-> f.img, mask |-> f.mask, kspace_te |-> f.kspace_te, kspace_ti |-> f.kspace_ti,
     at_norm |-> f.at_norm, norm_in |-> f.norm_in, maps_ti |-> f.maps_ti,
     remask |-> f.remask,
     resolved |-> f.resolved, te_cls |-> f.te_cls, ti_cls |-> f.ti_cls,
     te |-> f.te, ti |-> f.ti, log |-> f.log]

NoRet == [Outcome(InitFrame(NoCall, <<>>, FALSE, FALSE, ZeroRng, ZeroSched)) EXCEPT !.err = "idle"]
NoLay == [args |-> <<>>, flags |-> <<>>, hist |-> <<>>,
          cur |-> [err |-> "none", arity |-> "input", vals |-> <<>>]]
NoTwin == [phase |-> "none", seed |-> 0, rewind |-> FALSE, apart |-> FALSE,
          rng |-> ZeroRng, sched |-> ZeroSched, ret |-> NoRet,
          calls |-> 0, resets |-> 0, after |-> 0]
NoCtor == [built |-> [o \in 1..2 |-> FALSE], seed |-> [o \in 1..2 |-> None],
           fresh |-> [o \in 1..2 |-> FALSE], rng |-> [o \in 1..2 |-> ZeroRng]]

(* the state after construction; the generators' RNG state is whatever     *)
(* construction left (see Construct)                                       *)
Init ==
    /\ tfms_or_gens \in SeqsUpTo(Entries, MaxTfms)
    /\ aug_sensitivity_maps \in BOOLEAN
    /\ apply_mask_after_invariant_tfms \in BOOLEAN
    /\ rng \in RngStates(tfms_or_gens)
    /\ sched = ZeroSched
    /\ fed = 0
    /\ call = NoCall
    /\ ret = NoRet
    /\ lay = NoLay
    /\ ctor = NoCtor
    /\ twin = NoTwin

(* one call of the orchestrator, lines 87-201 *)
Call(in) ==
    /\ fed + in.kspace.batch <= MaxProgress
    /\ \E f \in {CallResult(in, tfms_or_gens, aug_sensitivity_maps,
                             apply_mask_after_invariant_tfms, rng, sched)} :
           /\ call' = in
           /\ ret' = Outcome(f)
           /\ rng' = f.rng
           /\ sched' = f.sched
           /\ fed' = IF f.returned THEN fed + in.kspace.batch ELSE fed
    /\ UNCHANGED <<tfms_or_gens, aug_sensitivity_maps, apply_mask_after_invariant_tfms,
                   lay, ctor, twin>>

(* the first call of a run: any arguments *)
FirstCall ==
    /\ ret.err = "idle"
    /\ \E in \in CallInputs : Call(in)

(* a later call of the run, on another batch; an exception ends the run *)
LaterCall ==
    /\ ret.returned
    /\ \E k \in KspaceInputs : Call(SameCaller(call, k))

Next == FirstCall \/ LaterCall

Spec == Init /\ [][Next]_vars

(* one call on an orchestrator as construction left it: what a call returns *)
(* depends on its arguments, the list, the two flags and the generators'    *)
(* RNG state, all of which Init leaves open, and not on the counters the    *)
(* earlier calls advanced                                                   *)
SpecCall == Init /\ [][FirstCall]_vars

-----------------------------------------------------------------------------
(* The layout adapter on its own                                           *)

TensorOfRank(n) == Tensor([i \in 1..n |-> i], 1, <<0, 0>>)
LayoutArgs == {None} \cup {TensorOfRank(n) : n \in 1..MaxRank}

InitLayout ==
    /\ tfms_or_gens = <<>>
    /\ aug_sensitivity_maps = TRUE
    /\ apply_mask_after_invariant_tfms = FALSE
    /\ rng = ZeroRng
    /\ sched = ZeroSched
    /\ fed = 0
    /\ call = NoCall
    /\ ret = NoRet
    /\ ctor = NoCtor
    /\ twin = NoTwin
    /\ \E args \in SeqsUpTo(LayoutArgs, MaxArgs) \ {<<>>} :
          lay = [args |-> args, flags |-> <<>>, hist |-> <<>>,
                 cur |-> [err |-> "none", arity |-> "input", vals |-> args]]

(* _permute_data applied to what the previous application returned *)
Permute(spatial_last) ==
    /\ Len(lay.flags) < 2
    /\ lay.cur.err = "none"
    /\ lay' = [lay EXCEPT !.flags = Append(lay.flags, spatial_last),
                          !.hist = Append(lay.hist, PermuteData(lay.cur.vals, spatial_last)),
                          !.cur = PermuteData(lay.cur.vals, spatial_last)]
    /\ UNCHANGED <<tfms_or_gens, aug_sensitivity_maps, apply_mask_after_invariant_tfms,
                   rng, sched, fed, call, ret, ctor, twin>>

NextLayout == \E spatial_last \in BOOLEAN : Permute(spatial_last)

SpecLayout == InitLayout /\ [][NextLayout]_vars

-----------------------------------------------------------------------------
(* Construction and seeding of two orchestrators built from one            *)
(* configuration                                                           *)

MaxSeed == 2
SeedValues == {[kind |-> "int", value |-> v] : v \in 0..MaxSeed}

(* SeedTfmGens that stops at the entries of the list: the generators a     *)
(* composite chooses among keep their RNG state                            *)
SeedTfmGens_TopLevel(list, value, r) ==
    [g \in GenIds |-> IF g \in {list[i].id : i \in 1..Len(list)} THEN SeedState(value) ELSE r[g]]

(* seed_tfm_gens(tfms_or_gens, seed) with an integer seed: every generator *)
(* of the list, and the generators a composite chooses among, is reseeded  *)
SeedTfmGens(list, value, r) ==
    [g \in GenIds |-> IF g \in GenIdsOf(list) THEN SeedState(value) ELSE r[g]]

(* seed_tfm_gens(tfms_or_gens, seed=None): the RNG states an unseeded      *)
(* (entropy-seeded) generator can be in                                    *)
UnseededRngStates(list, r) == RngStates(list)

InitCtor ==
    /\ tfms_or_gens \in SeqsUpTo(Entries, MaxTfms)
    /\ aug_sensitivity_maps = TRUE
    /\ apply_mask_after_invariant_tfms = FALSE
    /\ rng = ZeroRng
    /\ sched = ZeroSched
    /\ fed = 0
    /\ call = NoCall
    /\ ret = NoRet
    /\ lay = NoLay
    /\ twin = NoTwin
    /\ \E r1 \in RngStates(tfms_or_gens), r2 \in RngStates(tfms_or_gens) :
          ctor = [NoCtor EXCEPT !.rng = [o \in 1..2 |-> IF o = 1 THEN r1 ELSE r2]]

(* MRIReconAugmentor.__init__, lines 76-85, for orchestrator o: the        *)
(* generators are seeded when seed is None, and only then                  *)
Construct(o, seed) ==
    /\ ~ctor.built[o]
    /\ \E r \in (IF IsNone(seed) THEN UnseededRngStates(tfms_or_gens, ctor.rng[o])
                 ELSE {ctor.rng[o]}) :
          ctor' = [ctor EXCEPT !.built[o] = TRUE, !.seed[o] = seed, !.fresh[o] = TRUE,
                               !.rng[o] = r]
    /\ UNCHANGED <<tfms_or_gens, aug_sensitivity_maps, apply_mask_after_invariant_tfms,
                   rng, sched, fed, call, ret, lay, twin>>

(* MRIReconAugmentor.seed, lines 330-333 *)
Seed(o, value) ==
    /\ ctor.built[o]
    /\ ctor.fresh[o]
    /\ ctor' = [ctor EXCEPT !.fresh[o] = FALSE,
                            !.rng[o] = SeedTfmGens(tfms_or_gens, value.value, ctor.rng[o])]
    /\ UNCHANGED <<tfms_or_gens, aug_sensitivity_maps, apply_mask_after_invariant_tfms,
                   rng, sched, fed, call, ret, lay, twin>>

NextCtor ==
    \/ \E o \in 1..2, seed \in {None} \cup SeedValues : Construct(o, seed)
    \/ \E o \in 1..2, value \in SeedValues : Seed(o, value)

SpecCtor == InitCtor /\ [][NextCtor]_vars

-----------------------------------------------------------------------------
(* Two orchestrators built from one configuration, seeded with one value   *)
(* and driven by the same calls.  The first orchestrator lives in rng,     *)
(* sched and ret, the second in twin.                                      *)

MaxResets == 1

(* TransformGen.reset() of one generator in RNG state r, seeded is the     *)
(* state its last seed gave: reinitializing the internal state either      *)
(* rewinds the RNG or leaves it where it is                                *)
GenReset(r, seeded, rewind) == IF rewind THEN seeded ELSE r

(* MRIReconAugmentor.reset, lines 323-328: reset() of every generator of   *)
(* the list (a composite resets the generators it chooses among)           *)
ResetGens(list, r, value, rewind) ==
    [g \in GenIds |-> IF g \in GenIdsOf(list)
                      THEN GenReset(r[g], SeedTfmGens(list, value, r)[g], rewind)
                      ELSE r[g]]

(* the arguments the two orchestrators are called with *)
TwinInputs ==
    {in \in CallInputs : /\ ~in.skip_tfm
                         /\ IsNone(in.mask_gen)
                         /\ IsNone(in.mask)
                         /\ IsNone(in.apply_mask_after_invariant_tfms)
                         /\ ~IsNone(in.target)}

(* both orchestrators after construction: each with the RNG state its own  *)
(* construction left                                                       *)
InitTwin ==
    /\ tfms_or_gens \in SeqsUpTo(Entries, MaxTfms)
    /\ aug_sensitivity_maps \in BOOLEAN
    /\ apply_mask_after_invariant_tfms = FALSE
    /\ rng \in RngStates(tfms_or_gens)
    /\ sched = ZeroSched
    /\ fed = 0
    /\ call = NoCall
    /\ ret = NoRet
    /\ lay = NoLay
    /\ ctor = NoCtor
    /\ \E r2 \in RngStates(tfms_or_gens), rw \in BOOLEAN :
          twin = [NoTwin EXCEPT !.phase = "built", !.rng = r2, !.rewind = rw,
                                !.apart = (r2 # rng)]

(* seed(value) on both, lines 330-333 *)
TwinSeed(value) ==
    /\ twin.phase = "built"
    /\ rng' = SeedTfmGens(tfms_or_gens, value.value, rng)
    /\ twin' = [twin EXCEPT !.phase = "seeded", !.seed = value.value,
                            !.rng = SeedTfmGens(tfms_or_gens, value.value, twin.rng)]
    /\ UNCHANGED <<tfms_or_gens, aug_sensitivity_maps, apply_mask_after_invariant_tfms,
                   sched, fed, call, ret, lay, ctor>>

(* the same call on both, lines 87-201 *)
TwinCall(in) ==
    /\ twin.phase = "seeded"
    /\ fed + in.kspace.batch <= MaxProgress
    /\ ret.err # "idle" => ret.returned /\ twin.ret.returned
    /\ \E f \in {CallResult(in, tfms_or_gens, aug_sensitivity_maps,
                             apply_mask_after_invariant_tfms, rng, sched)},
          g \in {CallResult(in, tfms_or_gens, aug_sensitivity_maps,
                             apply_mask_after_invariant_tfms, twin.rng, twin.sched)} :
           /\ call' = in
           /\ ret' = Outcome(f)
           /\ rng' = f.rng
           /\ sched' = f.sched
           /\ fed' = fed + in.kspace.batch
           /\ twin' = [twin EXCEPT !.ret = Outcome(g), !.rng = g.rng, !.sched = g.sched,
                                   !.calls = twin.calls + 1,
                                   !.after = IF twin.resets > 0 THEN twin.after + 1 ELSE 0]
    /\ UNCHANGED <<tfms_or_gens, aug_sensitivity_maps, apply_mask_after_invariant_tfms,
                   lay, ctor>>

(* reset() on both, lines 323-328 *)
TwinReset ==
    /\ twin.phase = "seeded"
    /\ twin.resets < MaxResets
    /\ twin.calls > 0
    /\ rng' = ResetGens(tfms_or_gens, rng, twin.seed, twin.rewind)
    /\ twin' = [twin EXCEPT !.resets = twin.resets + 1, !.after = 0,
                            !.rng = ResetGens(tfms_or_gens, twin.rng, twin.seed, twin.rewind)]
    /\ UNCHANGED <<tfms_or_gens, aug_sensitivity_maps, apply_mask_after_invariant_tfms,
                   sched, fed, call, ret, lay, ctor>>

NextTwin ==
    \/ \E value \in SeedValues : TwinSeed(value)
    \/ \E in \in TwinInputs : TwinCall(in)
    \/ TwinReset

SpecTwin == InitTwin /\ [][NextTwin]_vars

-----------------------------------------------------------------------------
(* Properties                                                              *)

Called == ret.err # "idle"
HasOp(op) == \E i \in 1..Len(ret.log) : ret.log[i].op = op
Ids(s) == [i \in 1..Len(s) |-> s[i].id]
OpIds(op) == Ids(SelectSeq(ret.log, LAMBDA e : e.op = op))

RECURSIVE IsSubseq(_, _)
IsSubseq(a, b) ==
    IF a = <<>> THEN TRUE
    ELSE IF b = <<>> THEN FALSE
    ELSE IF Head(a) = Head(b) THEN IsSubseq(Tail(a), Tail(b))
    ELSE IsSubseq(a, Tail(b))

(* the kind of an entry as the classifier contract words it *)
EntryKind(e) == IF e.cls \in {"TransformGen", "RandomTransformChoice"} THEN e.base ELSE e.cls
EntryIsTransform(e) == EntryKind(e) \in {"Geo", "Phys", "PhysMaps", "NoOp"}
EntryIsGeometric(e) == EntryKind(e) = "Geo"
EntryIsNotGeometric(e) == EntryKind(e) # "Geo"
EntryIsBare(e) == e.cls \notin {"TransformGen", "RandomTransformChoice"} /\ e.draw = 0
EntryIsBareApplied(e) == EntryIsBare(e) /\ e.cls # "NoOp"

RemaskInEffect ==
    IF call.apply_mask_after_invariant_tfms.kind = "none" THEN apply_mask_after_invariant_tfms
    ELSE call.apply_mask_after_invariant_tfms.value

(* C1: whenever the classifier was handed a flat list of transforms and    *)
(* generators, the equivariant output is exactly the sub-sequence of the   *)
(* geometric-kind entries of the input and the invariant output exactly    *)
(* the sub-sequence of the other entries: an exact, order-preserving       *)
(* partition, with the kind of a generator being its wrapped base type.    *)
C1_ClassifyPartition ==
    (HasOp("classify") /\ \A i \in 1..Len(ret.resolved) : EntryIsTransform(ret.resolved[i]))
    => /\ ret.te_cls = SelectSeq(ret.resolved, EntryIsGeometric)
       /\ ret.ti_cls = SelectSeq(ret.resolved, EntryIsNotGeometric)
       /\ Len(ret.te_cls) + Len(ret.ti_cls) = Len(ret.resolved)

C1_Witness ==
    /\ HasOp("classify")
    /\ Len(ret.resolved) >= 3
    /\ \A i \in 1..Len(ret.resolved) : EntryIsTransform(ret.resolved[i])
    /\ \E i \in 1..Len(ret.te_cls) : ret.te_cls[i].cls = "TransformGen"
    /\ Len(ret.ti_cls) >= 2
    /\ ret.ti_cls[1] # ret.ti_cls[2]

(* C2: after any sequence of completed calls the counter of every          *)
(* scheduler reachable from the transform list equals the sum of the batch *)
(* sizes of those calls (each call steps each scheduler exactly once).     *)
C2_EachSchedulerOncePerCall ==
    \A s \in Range(Schedulers(tfms_or_gens)) : sched[s] = fed

SameAsInputs ==
    /\ ret.kspace = call.kspace
    /\ ret.maps = call.maps
    /\ ret.target = call.target
    /\ ret.te = <<>>
    /\ ret.ti = <<>>

(* C3 as stated: every returning call with an empty transform list or with *)
(* skip_tfm returns measurement data, maps and target identical to the     *)
(* inputs and two empty provenance lists.                                  *)
C3_AsStated ==
    (ret.returned /\ (tfms_or_gens = <<>> \/ call.skip_tfm)) => SameAsInputs

(* C3 amended: the same, for the calls that are given neither a normalizer *)
(* nor a mask generator.                                                   *)
C3_SkipLeavesDataAlone ==
    (/\ ret.returned
     /\ tfms_or_gens = <<>> \/ call.skip_tfm
     /\ call.normalizer.kind = "none"
     /\ call.mask_gen.kind = "none") => SameAsInputs

C3_Witness ==
    /\ ret.returned
    /\ call.skip_tfm
    /\ Len(tfms_or_gens) = MaxTfms
    /\ call.normalizer.kind = "none"
    /\ call.mask_gen.kind = "none"
    /\ call.mask.kind = "true"
    /\ RemaskInEffect
    /\ call.kspace.batch = 2
    /\ SameAsInputs

NoMaskEstablished == call.mask.kind = "none" /\ call.mask_gen.kind = "none"

(* C4 as stated: every call with re-masking in effect and no mask          *)
(* established aborts with the contract error and returns nothing.         *)
C4_AsStated ==
    (Called /\ RemaskInEffect /\ NoMaskEstablished)
    => (ret.err = "AssertionError" /\ ~ret.returned)

(* C4 amended: a call with at least one invariant-classified entry, with   *)
(* re-masking in effect and no mask established, returns nothing: it       *)
(* aborts with the contract error when it reaches the invariant stage,     *)
(* unless the layout conversion of the equivariant stage raised before.    *)
C4_RemaskNeedsMask ==
    (Called /\ RemaskInEffect /\ NoMaskEstablished /\ Len(ret.ti_cls) > 0)
    => /\ ~ret.returned
       /\ \/ ret.err = "AssertionError"
          \/ ret.err = "AttributeError" /\ Len(ret.te_cls) > 0 /\ call.target.kind = "none"

C4_Witness ==
    /\ Called
    /\ call.apply_mask_after_invariant_tfms = Bool(TRUE)
    /\ ~apply_mask_after_invariant_tfms
    /\ NoMaskEstablished
    /\ Len(ret.ti_cls) > 0
    /\ Len(ret.te_cls) > 0
    /\ HasOp("forward")
    /\ ret.err = "AssertionError"
    /\ ~ret.returned

(* the mask in force when the invariant stage re-masks: the mask           *)
(* generator's when one is supplied, else the mask argument                *)
GivenMask == IF call.mask_gen.kind = "none" THEN call.mask ELSE MaskGen(call.kspace).mask
OutsideMask == IF GivenMask.kind = "tensor" THEN (1..2) \ Support(GivenMask.data) ELSE {}

(* C5: in a returning call with a mask tensor M in force and invariant     *)
(* entries, when re-masking is in effect every returned measurement entry  *)
(* outside the support of M is zero; when it is not in effect the returned *)
(* measurement data is what the invariant transforms left, unmasked.       *)
C5_RemaskZeroesOutsideMask ==
    (ret.returned /\ Len(ret.ti_cls) > 0 /\ GivenMask.kind = "tensor")
    => /\ RemaskInEffect => \A i \in OutsideMask : ret.kspace.data[i] = 0
       /\ ~RemaskInEffect => ret.kspace = ret.kspace_ti

C5_Witness ==
    /\ ret.returned
    /\ RemaskInEffect
    /\ GivenMask.kind = "tensor"
    /\ ret.ti # <<>>
    /\ \E i \in OutsideMask : call.kspace.data[i] = 0 /\ ret.kspace_ti.data[i] # 0
    /\ \A i \in OutsideMask : ret.kspace.data[i] = 0

(* C6: in a returning call each provenance list holds no no-op, lists      *)
(* exactly the transforms the call applied (apply_image for the            *)
(* equivariant list, apply_kspace for the invariant list) in the order of  *)
(* application, is drawn in order from the entries classified into its     *)
(* family, and misses no bare transform of that family.                    *)
C6_ProvenanceIsWhatWasApplied ==
    ret.returned
    => /\ \A i \in 1..Len(ret.te) : ret.te[i].cls # "NoOp" /\ EntryIsGeometric(ret.te[i])
       /\ \A i \in 1..Len(ret.ti) : ret.ti[i].cls # "NoOp" /\ EntryIsNotGeometric(ret.ti[i])
       /\ Ids(ret.te) = OpIds("apply_image")
       /\ Ids(ret.ti) = OpIds("apply_kspace")
       /\ IsSubseq(Ids(ret.te), Ids(ret.te_cls))
       /\ IsSubseq(Ids(ret.ti), Ids(ret.ti_cls))
       /\ SelectSeq(ret.te, EntryIsBare) = SelectSeq(ret.te_cls, EntryIsBareApplied)
       /\ SelectSeq(ret.ti, EntryIsBare) = SelectSeq(ret.ti_cls, EntryIsBareApplied)

C6_Witness ==
    /\ ret.returned
    /\ Len(ret.te_cls) = 1
    /\ ret.te = <<>>
    /\ HasOp("get_transform")
    /\ TNoOp \in Range(ret.ti_cls)
    /\ ret.ti = <<TPhys>>

StageRank(op) ==
    CASE op = "adjoint" -> 1
      [] op = "apply_image" -> 2
      [] op = "forward" -> 3
      [] op = "mask_gen" -> 4
      [] op = "refresh" -> 5
      [] op = "normalize" -> 6
      [] op = "apply_kspace" -> 7
      [] op = "remask" -> 8
      [] op = "step" -> 9
      [] OTHER -> 0

InStageOrder(stages) ==
    \A i \in 1..(Len(stages) - 1) :
        LET a == StageRank(stages[i].op)
            b == StageRank(stages[i + 1].op)
        IN  a < b \/ (a = b /\ a \in {2, 7})

StagesOfCall == SelectSeq(ret.log, LAMBDA e : StageRank(e.op) > 0)

(* C7: the operations of one call happen in the order adjoint, equivariant *)
(* applications, forward, mask generator, image refresh, normalizer,       *)
(* invariant applications, re-mask, scheduler step; only the transform     *)
(* applications repeat, and the first adjoint is the only operation that   *)
(* may recur (as the image refresh).                                       *)
C7_StageOrder == Called => InStageOrder(StagesOfCall)

C7_Witness ==
    /\ ret.returned
    /\ \A op \in {"adjoint", "apply_image", "forward", "mask_gen", "refresh", "normalize",
                  "apply_kspace", "remask", "step"} : HasOp(op)

(* C8: with aug_sensitivity_maps false, a returning call whose resolved    *)
(* list holds only equivariant entries returns the input maps.             *)
C8_MapsUntouched ==
    (/\ ret.returned
     /\ ~aug_sensitivity_maps
     /\ ~call.skip_tfm
     /\ Len(ret.resolved) > 0
     /\ \A i \in 1..Len(ret.resolved) : EntryIsGeometric(ret.resolved[i]))
    => ret.maps = call.maps

C8_Witness ==
    /\ ret.returned
    /\ ~aug_sensitivity_maps
    /\ ~call.skip_tfm
    /\ Len(ret.resolved) > 0
    /\ \A i \in 1..Len(ret.resolved) : EntryIsGeometric(ret.resolved[i])
    /\ Len(ret.te) = 1
    /\ call.target.kind = "tensor"
    /\ ret.target.data = <<call.target.data[2], call.target.data[1]>>
    /\ ret.maps = call.maps

ValidRank(x) == x.kind = "tensor" /\ Len(x.axes) >= 3

(* C9: for tensors of valid rank, two applications of the layout adapter   *)
(* with opposite direction flags return the original axis order, and every *)
(* application returns a single value for one argument and otherwise a     *)
(* tuple with one tensor per argument, in argument order.                  *)
C9_LayoutRoundTrip ==
    (\A i \in 1..Len(lay.args) : ValidRank(lay.args[i]))
    => /\ (Len(lay.flags) = 2 /\ lay.flags[1] # lay.flags[2]) => lay.cur.vals = lay.args
       /\ \A k \in 1..Len(lay.hist) :
             /\ lay.hist[k].err = "none"
             /\ lay.hist[k].arity = (IF Len(lay.args) = 1 THEN "single" ELSE "tuple")
             /\ Len(lay.hist[k].vals) = Len(lay.args)
             /\ \A i \in 1..Len(lay.args) :
                   /\ Len(lay.hist[k].vals[i].axes) = Len(lay.args[i].axes)
                   /\ Range(lay.hist[k].vals[i].axes) = Range(lay.args[i].axes)
                   /\ lay.hist[k].vals[i].axes[1] = 1

C9_Witness ==
    /\ lay.flags = <<TRUE, FALSE>>
    /\ Len(lay.args) = 2
    /\ ValidRank(lay.args[1]) /\ ValidRank(lay.args[2])
    /\ Len(lay.args[1].axes) = 4 /\ Len(lay.args[2].axes) = 5
    /\ lay.hist[1].vals[1].axes = <<1, 4, 2, 3>>
    /\ lay.hist[1].vals[2].axes = <<1, 4, 5, 2, 3>>
    /\ lay.cur.vals = lay.args

(* C10: right after an orchestrator was constructed with a non-null seed,  *)
(* every generator of its transform list is in the RNG state that seed     *)
(* gives, so two orchestrators constructed with the same non-null seed     *)
(* start from the same generator RNG state.                                *)
C10_SeededAtConstruction ==
    /\ \A o \in 1..2 :
          (ctor.built[o] /\ ctor.fresh[o] /\ ctor.seed[o].kind = "int")
          => \A g \in GenIdsOf(tfms_or_gens) : ctor.rng[o][g] = SeedState(ctor.seed[o].value)
    /\ (/\ ctor.built[1] /\ ctor.fresh[1]
        /\ ctor.built[2] /\ ctor.fresh[2]
        /\ ctor.seed[1].kind = "int"
        /\ ctor.seed[1] = ctor.seed[2]) => ctor.rng[1] = ctor.rng[2]

NoTransformApplied == ~HasOp("apply_image") /\ ~HasOp("apply_kspace")

(* C12: a call whose resolved list holds an entry whose kind is no         *)
(* Transform raises the contract error, returns nothing, and has applied   *)
(* no transform by then.                                                   *)
C12_NonTransformAborts ==
    (Called /\ \E i \in 1..Len(ret.resolved) : ~EntryIsTransform(ret.resolved[i]))
    => /\ ret.err = "AssertionError"
       /\ ~ret.returned
       /\ NoTransformApplied
       /\ ret.te = <<>> /\ ret.ti = <<>>

C12_Witness ==
    /\ Called
    /\ Len(ret.resolved) = 3
    /\ EntryIsTransform(ret.resolved[1])
    /\ EntryIsTransform(ret.resolved[2])
    /\ ret.resolved[3] = TBad
    /\ HasOp("get_transform")
    /\ ret.err = "AssertionError"
    /\ NoTransformApplied

(* C13: in a returning call made with mask=True and no mask generator,     *)
(* the re-masking after the invariant transforms multiplies by the mask    *)
(* derived from the non-zero entries of the input measurement data.        *)
C13_TrueMaskIsDerived ==
    (/\ ret.returned
     /\ call.mask.kind = "true"
     /\ call.mask_gen.kind = "none"
     /\ HasOp("remask"))
    => ret.kspace.data = PMul(GetMask(call.kspace).data, ret.kspace_ti.data)

(* C14: a call without a target (target=None) whose resolved list holds    *)
(* only equivariant entries, at least one, returns, and returns a null     *)
(* target.                                                                 *)
C14_TargetMayBeAbsent ==
    (/\ Called
     /\ ~call.skip_tfm
     /\ call.target.kind = "none"
     /\ Len(ret.resolved) > 0
     /\ \A i \in 1..Len(ret.resolved) : EntryIsGeometric(ret.resolved[i]))
    => ret.returned /\ ret.target.kind = "none"

(* C15: in every call the forward re-decomposition is performed if and     *)
(* only if an equivariant transform was applied; where none was applied    *)
(* the measurement data that goes on to the mask generator and the         *)
(* normalizer is the caller's input.                                       *)
C15_ForwardIffApplied ==
    Called
    => /\ HasOp("forward") <=> HasOp("apply_image")
       /\ (ret.kspace_te.kind # "none" /\ ~HasOp("apply_image")) => ret.kspace_te = call.kspace

C15_Witness ==
    /\ ret.returned
    /\ Len(ret.te_cls) > 0
    /\ ret.te = <<>>
    /\ HasOp("get_transform")
    /\ HasOp("adjoint")
    /\ HasOp("normalize")
    /\ ~HasOp("forward")
    /\ ret.kspace_te = call.kspace

(* C16: a call that went through the normalize step and returns, returns   *)
(* the maps and the target as they stood after that step; the maps handed  *)
(* to the invariant transforms are those maps, in spatial-last layout, and *)
(* it is their values a maps-aware invariant transform works with.         *)
C16_InvariantStageFrame ==
    (Called /\ ret.at_norm.kind = "locals")
    => /\ ret.returned => (ret.maps = ret.at_norm.maps /\ ret.target = ret.at_norm.target)
       /\ ret.maps_ti.kind # "none"
             => ret.maps_ti = PermuteData(<<ret.at_norm.maps>>, TRUE).vals[1]

C16_Witness ==
    /\ ret.returned
    /\ Len(ret.te) > 0
    /\ aug_sensitivity_maps
    /\ ret.maps # call.maps
    /\ call.normalizer.kind # "none"
    /\ ret.target # call.target
    /\ \E i \in 1..Len(ret.ti) : AcceptsMaps(ret.ti[i])
    /\ ret.maps_ti.data = ret.maps.data
    /\ ret.maps_ti.axes # ret.maps.axes
    /\ ret.kspace_ti # call.kspace
    /\ ret.maps = ret.at_norm.maps

(* position of the classification in the log of a call, 0 when absent *)
ClassifyAt ==
    IF HasOp("classify") THEN CHOOSE i \in 1..Len(ret.log) : ret.log[i].op = "classify" ELSE 0

(* the resolved list is the transform list with one option of the         *)
(* composite in the place of each composite                                *)
IsSplice(list, resolved) ==
    \E pick \in [1..Len(list) -> 1..Len(ChoiceOptions)] :
        resolved = Flatten([i \in 1..Len(list) |->
                               IF list[i].cls = "RandomTransformChoice"
                               THEN ChoiceOptions[pick[i]].items ELSE <<list[i]>>])

(* C17: in a call without skip_tfm each composite of the transform list is *)
(* asked for its choice once, before the classification; the classified    *)
(* list is the transform list with each composite replaced, in place, by   *)
(* what it chose (the elements of a chosen sub-list in their order), and   *)
(* every element of it is classified.                                      *)
C17_CompositesResolvedOnce ==
    (Called /\ ~call.skip_tfm)
    => /\ HasOp("classify")
       /\ Len(SelectSeq(SubSeq(ret.log, 1, ClassifyAt),
                        LAMBDA e : e.op = "get_transform" /\ e.id = "c1"))
             = Len(SelectSeq(tfms_or_gens, LAMBDA x : x.cls = "RandomTransformChoice"))
       /\ \A i \in (ClassifyAt + 1)..Len(ret.log) :
             ~(ret.log[i].op = "get_transform" /\ ret.log[i].id = "c1")
       /\ \A i \in 1..(ClassifyAt - 1) : ret.log[i].op = "get_transform" /\ ret.log[i].id = "c1"
       /\ IsSplice(tfms_or_gens, ret.resolved)
       /\ ret.err # "AssertionError" \/ ret.ti_cls # <<>> \/ ret.te_cls # <<>>
             => Len(ret.te_cls) + Len(ret.ti_cls) = Len(ret.resolved)

C17_Witness ==
    /\ ret.returned
    /\ ~call.skip_tfm
    /\ Len(tfms_or_gens) = 2
    /\ tfms_or_gens[1] = C1
    /\ tfms_or_gens[2] = TGeo
    /\ ret.resolved = <<TNoOp, TPhys, TGeo>>
    /\ ret.te_cls = <<TGeo>>
    /\ ret.ti_cls = <<TNoOp, TPhys>>

RECURSIVE ApplyAll(_, _)
ApplyAll(tfms, x) ==
    IF tfms = <<>> \/ IsNone(x) THEN x
    ELSE ApplyAll(Tail(tfms), ApplyImage(Head(tfms), x))

(* measurement data and mask as lines 167-169 leave them *)
AfterMaskGen ==
    IF call.mask_gen.kind = "none"
    THEN [kspace |-> ret.kspace_te,
          mask |-> IF call.mask.kind = "true" THEN GetMask(call.kspace) ELSE call.mask]
    ELSE MaskGen(ret.kspace_te)

(* C18: a returning call returns a null mean and std exactly when it was   *)
(* given no normalizer; a call given one invokes it once, on the           *)
(* measurement data, image, target and mask as lines 144-169 left them,    *)
(* and takes over the target, mean, std and measurement data it returns.   *)
C18_NormalizerOnce ==
    /\ ret.returned
          => /\ (ret.mean.kind = "none") <=> (call.normalizer.kind = "none")
             /\ (ret.std.kind = "none") <=> (call.normalizer.kind = "none")
    /\ (Called /\ ret.at_norm.kind = "locals")
          => IF call.normalizer.kind = "none"
             THEN ~HasOp("normalize") /\ ret.norm_in.kind = "none"
             ELSE /\ Len(OpIds("normalize")) = 1
                  /\ ret.norm_in.masked_kspace = AfterMaskGen.kspace
                  /\ ret.norm_in.mask = AfterMaskGen.mask
                  /\ ret.norm_in.image = ret.img
                  /\ ret.norm_in.target = ApplyAll(ret.te, call.target)
                  /\ LET n == Normalize(ret.norm_in.masked_kspace, ret.norm_in.image,
                                        ret.norm_in.target, ret.norm_in.mask)
                     IN  /\ ret.at_norm.target = n.target
                         /\ ret.mean = n.mean /\ ret.std = n.std
                         /\ ret.returned => ret.target = n.target
                         /\ (ret.returned /\ ret.ti_cls = <<>>) => ret.kspace = n.masked_kspace

C18_Witness ==
    /\ ret.returned
    /\ call.normalizer.kind # "none"
    /\ call.mask_gen.kind # "none"
    /\ Len(ret.te) > 0
    /\ ret.ti_cls = <<>>
    /\ ret.norm_in.masked_kspace # call.kspace
    /\ ret.norm_in.target.kind = "tensor"
    /\ ret.std.kind = "scalar" /\ ret.std.value = 2
    /\ ret.kspace # ret.norm_in.masked_kspace
    /\ ret.target # ret.norm_in.target

(* C19: a call with skip_tfm asks no generator and no composite for a      *)
(* transform and leaves every generator's RNG state, the transform list    *)
(* and the two flags as they were: of the orchestrator's state only the    *)
(* scheduler counters change.                                              *)
C19_SkipAsksNoGenerator ==
    [][(call'.skip_tfm /\ ret'.err # "idle")
       => /\ rng' = rng
          /\ tfms_or_gens' = tfms_or_gens
          /\ aug_sensitivity_maps' = aug_sensitivity_maps
          /\ apply_mask_after_invariant_tfms' = apply_mask_after_invariant_tfms
          /\ \A i \in 1..Len(ret'.log) : ret'.log[i].op # "get_transform"
          /\ ret'.resolved = <<>>]_vars

C19_Witness ==
    /\ ret.returned
    /\ call.skip_tfm
    /\ tfms_or_gens = <<G1, C1>>
    /\ call.kspace.batch = 2
    /\ sched["s1"] = 2 /\ sched["s3"] = 2
    /\ rng["g1"] = 1 /\ rng["c1"] = 1
    /\ ~HasOp("get_transform")
    /\ HasOp("step")

(* C20: a call that raises the contract error, from the classifier or from *)
(* the mask assertion of the invariant stage, returns nothing, has applied *)
(* no invariant transform and leaves every scheduler counter at the value  *)
(* it had before the call.                                                 *)
C20_AbortStepsNothing ==
    [][ret'.err = "AssertionError"
       => /\ sched' = sched
          /\ ~ret'.returned
          /\ \A i \in 1..Len(ret'.log) : ret'.log[i].op \notin {"apply_kspace", "step"}]_vars

C20_Witness ==
    /\ ret.err = "AssertionError"
    /\ ~ret.returned
    /\ Len(ret.ti_cls) > 0
    /\ HasOp("forward")
    /\ HasOp("normalize")
    /\ \E i \in 1..Len(tfms_or_gens) : tfms_or_gens[i] = G1
    /\ RemaskInEffect
    /\ NoMaskEstablished
    /\ ~HasOp("apply_kspace")
    /\ \A s \in SchedIds : sched[s] = 0

====
